---- MODULE Spec2Model ----
(***************************************************************************)
(* A model of the LRU cache of src/lru_cache.py: the lock-protected LRU    *)
(* structure (hash index + doubly linked recency list with sentinels,      *)
(* optional TTL), and, around it, the sharding facade and the hit/miss     *)
(* counters that the tests of src/test_lru_cache.py exercise.              *)
(***************************************************************************)
EXTENDS Integers, Sequences, FiniteSets, TLC

\* ------------------------------------------------------------------ bounds
MaxCapacity == 2
MaxShards == 2
NumKeys == 3
MaxTime == 2
MaxTtl == 1
MaxGets == 2
NumThreads == 2
MaxTotalCapacity == 6
MaxNumShards == 4
MaxCalls == 2

\* ------------------------------------------------------- program constants
\* Python's None (an absent Optional value, an unset link).
None == -1
\* The two sentinel nodes of a recency list.
_head == 0
_tail == 1

Keys == 1..NumKeys
\* The values the callers store: 1 and 10, as in test_lru_cache_overwrite.
Values == {1, 10}
\* The identities a structure's Node objects are drawn from: one more than there
\* are keys, so that an allocation always finds a free one.
Nodes == 2..(NumKeys + 2)
AllNodes == {_head, _tail} \cup Nodes
Threads == 1..NumThreads

\* The arguments construction is tried with: valid and invalid ones.
CapacityArgs == (-1)..MaxCapacity
TtlArgs == {None, -2} \cup (0..MaxTtl)
ShardArgs == (-1)..MaxShards

Min(S) == CHOOSE x \in S : \A y \in S : x <= y
Max(a, b) == IF a >= b THEN a ELSE b

RECURSIVE SumOver(_, _)
SumOver(f, S) == IF S = {} THEN 0
                 ELSE LET x == Min(S) IN f[x] + SumOver(f, S \ {x})

\* ------------------------------------------------------------ Node objects
\* A structure's nodes are five maps over node identities (Node.__slots__).
NoLinks == [n \in AllNodes |-> None]

\* The nodes something still refers to: the index, or a link of any node.
Referenced(sh) ==
    {_head, _tail} \cup {sh._cache[k] : k \in Keys}
                 \cup {sh.next[n] : n \in AllNodes}
                 \cup {sh.prev[n] : n \in AllNodes}

\* A node nothing refers to is freed: its slots hold nothing any more.
gc(sh) ==
    LET free == Nodes \ Referenced(sh)
    IN [sh EXCEPT !.key = [n \in AllNodes |-> IF n \in free THEN None ELSE @[n]],
                  !.value = [n \in AllNodes |-> IF n \in free THEN None ELSE @[n]],
                  !.created_at = [n \in AllNodes |-> IF n \in free THEN None ELSE @[n]]]

\* Node(key, value): a fresh object, stamped with the monotonic clock. The
\* allocator gives it any free identity; which one is not observable, and the
\* one chosen here is the key's own slot when free, else the lowest free one.
Node(sh, key, value, now) ==
    LET free == Nodes \ Referenced(sh)
        n == IF (key + 1) \in free THEN key + 1 ELSE Min(free)
    IN [sh |-> [sh EXCEPT !.key[n] = key, !.value[n] = value,
                          !.created_at[n] = now,
                          !.prev[n] = None, !.next[n] = None],
        node |-> n]

\* ------------------------------------------------------- the LRU structure
\* The bug of a capacity check that lets 0 through.
Mutant_init_accepts_zero(capacity, ttl_seconds) ==
    IF capacity < 0 THEN [error |-> "ValueError"]
    ELSE IF ttl_seconds # None /\ ttl_seconds < 0 THEN [error |-> "ValueError"]
    ELSE [error |-> "",
          _capacity |-> capacity,
          _ttl_seconds |-> ttl_seconds,
          _cache |-> [k \in Keys |-> None],
          key |-> NoLinks,
          value |-> NoLinks,
          created_at |-> NoLinks,
          prev |-> [NoLinks EXCEPT ![_tail] = _head],
          next |-> [NoLinks EXCEPT ![_head] = _tail]]

\* LRUCache.__init__: a ValueError, or the empty structure.
__init__(capacity, ttl_seconds) ==
    IF capacity <= 0 THEN [error |-> "ValueError"]
    ELSE IF ttl_seconds # None /\ ttl_seconds < 0 THEN [error |-> "ValueError"]
    ELSE [error |-> "",
          _capacity |-> capacity,
          _ttl_seconds |-> ttl_seconds,
          _cache |-> [k \in Keys |-> None],
          key |-> NoLinks,
          value |-> NoLinks,
          created_at |-> NoLinks,
          prev |-> [NoLinks EXCEPT ![_tail] = _head],
          next |-> [NoLinks EXCEPT ![_head] = _tail]]

\* The bug of testing the TTL for truth: a TTL of 0 is taken for no TTL.
Mutant_is_expired_falsy(sh, node, now) ==
    IF sh._ttl_seconds = None \/ sh._ttl_seconds = 0 THEN FALSE
    ELSE (now - sh.created_at[node]) > sh._ttl_seconds

_is_expired(sh, node, now) ==
    IF sh._ttl_seconds = None THEN FALSE
    ELSE (now - sh.created_at[node]) > sh._ttl_seconds

\* The bug of an unlinking that repairs the forward link only.
Mutant_remove_node_halflink(sh, node) ==
    LET prev_node == sh.prev[node]
        next_node == sh.next[node]
        s1 == IF prev_node # None /\ next_node # None
              THEN [sh EXCEPT !.next[prev_node] = next_node]
              ELSE sh
    IN [s1 EXCEPT !.prev[node] = None, !.next[node] = None]

_remove_node(sh, node) ==
    LET prev_node == sh.prev[node]
        next_node == sh.next[node]
        s1 == IF prev_node # None /\ next_node # None
              THEN [[sh EXCEPT !.next[prev_node] = next_node]
                        EXCEPT !.prev[next_node] = prev_node]
              ELSE sh
    IN [s1 EXCEPT !.prev[node] = None, !.next[node] = None]

_add_node_to_front(sh, node) ==
    LET s1 == [sh EXCEPT !.prev[node] = _head, !.next[node] = sh.next[_head]]
        s2 == IF s1.next[_head] # None
              THEN [s1 EXCEPT !.prev[s1.next[_head]] = node]
              ELSE s1
    IN [s2 EXCEPT !.next[_head] = node]

\* The bug of a relocation that relinks nothing.
Mutant_move_to_front_noop(sh, node) == sh

_move_to_front(sh, node) == _add_node_to_front(_remove_node(sh, node), node)

_pop_tail(sh) ==
    LET tail_node == sh.prev[_tail]
    IN IF tail_node = _head \/ tail_node = None
       THEN [sh |-> sh, node |-> None]
       ELSE [sh |-> _remove_node(sh, tail_node), node |-> tail_node]

\* len(self._cache)
DictLen(sh) == Cardinality({k \in Keys : sh._cache[k] # None})

\* The bug of a get that returns a live value without relinking its node.
Mutant_get_peek(sh, key, now) ==
    LET node == sh._cache[key]
    IN IF node = None THEN [sh |-> sh, ret |-> None]
       ELSE IF _is_expired(sh, node, now)
       THEN [sh |-> gc([_remove_node(sh, node) EXCEPT !._cache[key] = None]),
             ret |-> None]
       ELSE [sh |-> sh, ret |-> sh.value[node]]

\* The bug of an expiry removal that unlinks the node and keeps it indexed.
Mutant_get_expired_keeps_index(sh, key, now) ==
    LET node == sh._cache[key]
    IN IF node = None THEN [sh |-> sh, ret |-> None]
       ELSE IF _is_expired(sh, node, now)
       THEN [sh |-> _remove_node(sh, node), ret |-> None]
       ELSE [sh |-> _move_to_front(sh, node), ret |-> sh.value[node]]

\* The bug of a get that stamps the entry it returns, as put does.
Mutant_get_touch(sh, key, now) ==
    LET node == sh._cache[key]
    IN IF node = None THEN [sh |-> sh, ret |-> None]
       ELSE IF _is_expired(sh, node, now)
       THEN [sh |-> gc([_remove_node(sh, node) EXCEPT !._cache[key] = None]),
             ret |-> None]
       ELSE [sh |-> _move_to_front([sh EXCEPT !.created_at[node] = now], node),
             ret |-> sh.value[node]]

get(sh, key, now) ==
    LET node == sh._cache[key]
    IN IF node = None THEN [sh |-> sh, ret |-> None]
       ELSE IF _is_expired(sh, node, now)
       THEN [sh |-> gc([_remove_node(sh, node) EXCEPT !._cache[key] = None]),
             ret |-> None]
       ELSE [sh |-> _move_to_front(sh, node), ret |-> sh.value[node]]

\* The bug of an update that leaves the node where it is in the list.
Mutant_put_update_nomove(sh, node, value, now) ==
    [sh EXCEPT !.value[node] = value, !.created_at[node] = now]

\* The bug of an update that keeps the old timestamp.
Mutant_put_update_nostamp(sh, node, value, now) ==
    _move_to_front([sh EXCEPT !.value[node] = value], node)

\* put, the key is in the index: update the node in place and relink it.
put_update(sh, node, value, now) ==
    _move_to_front([sh EXCEPT !.value[node] = value,
                              !.created_at[node] = now], node)

\* put, the key is new: make the node, index it, link it at the front.
put_insert(sh, key, value, now) ==
    LET made == Node(sh, key, value, now)
        new_node == made.node
    IN _add_node_to_front([made.sh EXCEPT !._cache[key] = new_node], new_node)

\* The bug of an eviction that starts one entry late.
Mutant_put_evict_late(sh) ==
    IF DictLen(sh) > sh._capacity + 1
    THEN LET popped == _pop_tail(sh)
             lru_node == popped.node
         IN IF lru_node # None
            THEN gc([popped.sh EXCEPT !._cache[popped.sh.key[lru_node]] = None])
            ELSE popped.sh
    ELSE sh

\* The bug of an eviction that starts when the index is just full.
Mutant_put_evict_at_capacity(sh) ==
    IF DictLen(sh) >= sh._capacity
    THEN LET popped == _pop_tail(sh)
             lru_node == popped.node
         IN IF lru_node # None
            THEN gc([popped.sh EXCEPT !._cache[popped.sh.key[lru_node]] = None])
            ELSE popped.sh
    ELSE sh

\* put, after the insertion: over capacity, pop the tail and unindex it.
put_evict(sh) ==
    IF DictLen(sh) > sh._capacity
    THEN LET popped == _pop_tail(sh)
             lru_node == popped.node
         IN IF lru_node # None
            THEN gc([popped.sh EXCEPT !._cache[popped.sh.key[lru_node]] = None])
            ELSE popped.sh
    ELSE sh

put(sh, key, value, now) ==
    LET node == sh._cache[key]
    IN IF node # None
       THEN put_update(sh, node, value, now)
       ELSE put_evict(put_insert(sh, key, value, now))

\* The bug of a length that is the size of the index, whatever the TTL.
Mutant_len_counts_expired(sh, now) == DictLen(sh)

__len__(sh, now) ==
    IF sh._ttl_seconds = None THEN DictLen(sh)
    ELSE Cardinality({k \in Keys : sh._cache[k] # None
                                   /\ ~_is_expired(sh, sh._cache[k], now)})

\* The bug of a membership test that does not look at the timestamp.
Mutant_contains_ignores_expiry(sh, key, now) == sh._cache[key] # None

__contains__(sh, key, now) ==
    LET node == sh._cache[key]
    IN IF node = None THEN FALSE ELSE ~_is_expired(sh, node, now)

\* The loop of clear: unlink every node from head.next up to the tail.
RECURSIVE ClearWalk(_, _)
ClearWalk(sh, curr) ==
    IF curr # None /\ curr # _tail
    THEN LET nxt == sh.next[curr]
         IN ClearWalk([sh EXCEPT !.prev[curr] = None, !.next[curr] = None], nxt)
    ELSE sh

\* The bug of a clear that unlinks the list and leaves the index as it is.
Mutant_clear_keeps_index(sh) ==
    LET walked == ClearWalk(sh, sh.next[_head])
    IN gc([walked EXCEPT !.next[_head] = _tail, !.prev[_tail] = _head])

clear(sh) ==
    LET walked == ClearWalk(sh, sh.next[_head])
    IN gc([walked EXCEPT !._cache = [k \in Keys |-> None],
                         !.next[_head] = _tail,
                         !.prev[_tail] = _head])

\* ------------------------------------------------------------- the facade
\* The bug of a distribution that drops the remainder.
Mutant_shard_capacity_no_extra(capacity, num_shards, i) ==
    Max(1, capacity \div num_shards)

\* Shard i's share of the capacity: the even share, one more for the first
\* capacity mod num_shards shards, and never less than 1.
shard_capacity(capacity, num_shards, i) ==
    Max(1, (capacity \div num_shards)
           + (IF i < capacity % num_shards THEN 1 ELSE 0))

\* The router: the key's hash (a small int hashes to itself) modulo the count.
shard_index(key, num_shards) == key % num_shards

\* Construction of the cache: a ValueError and no cache, or num_shards shards.
LRUCache(capacity, ttl_seconds, num_shards) ==
    IF num_shards <= 0 THEN [error |-> "ValueError", shards |-> <<>>]
    ELSE IF __init__(capacity, ttl_seconds).error # ""
    THEN [error |-> __init__(capacity, ttl_seconds).error, shards |-> <<>>]
    ELSE [error |-> "",
          shards |-> [i \in 0..(num_shards - 1) |->
                         __init__(shard_capacity(capacity, num_shards, i),
                                  ttl_seconds)]]

\* The bug of a counter update with the test the wrong way round.
Mutant_count_hit_inverted(sh, key, now) ==
    ~(sh._cache[key] # None /\ ~_is_expired(sh, sh._cache[key], now))

\* The counters a get updates: a hit when it finds a live entry, a miss when
\* it finds nothing or an expired entry.
count_hit(sh, key, now) ==
    sh._cache[key] # None /\ ~_is_expired(sh, sh._cache[key], now)

\* ------------------------------------------------------------------ state
VARIABLES
    state,      \* "new" before construction, then "ok" or "error"
    args,       \* the arguments of the construction
    shards,     \* shard index -> LRU structure; empty while there is no cache
    hits,       \* shard index -> hits counted
    misses,     \* shard index -> misses counted
    now,        \* the monotonic clock
    last,       \* the latest public call and what it returned
    written,    \* history: key -> value of its latest put, None once not stored
    put_time,   \* history: key -> time of its latest put, None once not stored
    used,       \* history: the stored keys, latest successful get/put first
    pc,         \* thread -> where it is in its call
    call,       \* thread -> the call it is making
    lock,       \* shard index -> the thread holding the shard's lock, or None
    todo        \* thread -> the calls its loop has still to make, None: no end

vars == <<state, args, shards, hits, misses, now, last, written, put_time,
          used, pc, call, lock, todo>>

ShardIds == DOMAIN shards
Route(key) == shard_index(key, args.num_shards)
\* The keys the index of their shard holds, in the shards shs.
Stored(shs) == {k \in Keys : shs[Route(k)]._cache[k] # None}

NoCall == [op |-> "none", key |-> None, value |-> None, i |-> 0, acc |-> 0]
\* What is kept of a call: its arguments, its result, for a put the time of
\* the previous put of its key (None: the key was not stored), the keys the
\* call unindexed, and the times of their latest puts.
Called(op, key, value, ret, shs) ==
    [op |-> op, key |-> key, value |-> value, ret |-> ret,
     before |-> IF op = "put" THEN put_time[key] ELSE None,
     dropped |-> IF state = "ok" THEN Stored(shards) \ Stored(shs) ELSE {},
     dropped_at |-> IF state = "ok"
                    THEN {put_time[x] : x \in Stored(shards) \ Stored(shs)}
                    ELSE {}]

RECURSIVE Without(_, _)
Without(seq, S) ==
    IF seq = <<>> THEN <<>>
    ELSE IF Head(seq) \in S THEN Without(Tail(seq), S)
    ELSE <<Head(seq)>> \o Without(Tail(seq), S)

\* The histories after a call that used key k (None: no key) and, for a put,
\* wrote v, given the shards the call leaves: a key no longer stored is dropped.
Remember(k, touched, v, shs) ==
    /\ written' = [x \in Keys |->
                      IF x \notin Stored(shs) THEN None
                      ELSE IF x = k /\ v # None THEN v ELSE written[x]]
    /\ put_time' = [x \in Keys |->
                       IF x \notin Stored(shs) THEN None
                       ELSE IF x = k /\ v # None THEN now ELSE put_time[x]]
    /\ used' = Without(IF touched THEN <<k>> \o Without(used, {k}) ELSE used,
                       Keys \ Stored(shs))

\* The state before construction: the arguments are drawn from the given
\* sets, and every thread's loop has n calls to make.
Start(capacities, ttls, counts, n) ==
    /\ state = "new"
    /\ args \in [capacity : capacities, ttl_seconds : ttls, num_shards : counts]
    /\ shards = <<>>
    /\ hits = <<>>
    /\ misses = <<>>
    /\ now = 0
    /\ last = [op |-> "none", key |-> None, value |-> None, ret |-> None,
               before |-> None, dropped |-> {}, dropped_at |-> {}]
    /\ written = [k \in Keys |-> None]
    /\ put_time = [k \in Keys |-> None]
    /\ used = <<>>
    /\ pc = [t \in Threads |-> "idle"]
    /\ call = [t \in Threads |-> NoCall]
    /\ lock = <<>>
    /\ todo = [t \in Threads |-> n]

Init == Start(CapacityArgs, TtlArgs, ShardArgs, None)

\* ------------------------------------------------- calls of a single caller
Construct ==
    /\ state = "new"
    /\ LET made == LRUCache(args.capacity, args.ttl_seconds, args.num_shards)
       IN /\ state' = IF made.error = "" THEN "ok" ELSE "error"
          /\ shards' = made.shards
          /\ hits' = [i \in DOMAIN made.shards |-> 0]
          /\ misses' = [i \in DOMAIN made.shards |-> 0]
          /\ lock' = [i \in DOMAIN made.shards |-> None]
          /\ last' = Called("init", None, None, None, made.shards)
    /\ UNCHANGED <<args, todo, now, written, put_time, used, pc, call>>

PutCall(k, v) ==
    /\ state = "ok"
    /\ shards' = [shards EXCEPT ![Route(k)] = put(@, k, v, now)]
    /\ last' = Called("put", k, v, None, shards')
    /\ Remember(k, TRUE, v, shards')
    /\ UNCHANGED <<state, args, todo, hits, misses, now, pc, call, lock>>

Gets == SumOver(hits, DOMAIN hits) + SumOver(misses, DOMAIN misses)

GetCall(k) ==
    /\ state = "ok"
    /\ Gets < MaxGets
    /\ LET i == Route(k)
           got == get(shards[i], k, now)
           hit == count_hit(shards[i], k, now)
       IN /\ shards' = [shards EXCEPT ![i] = got.sh]
          /\ hits' = [hits EXCEPT ![i] = IF hit THEN @ + 1 ELSE @]
          /\ misses' = [misses EXCEPT ![i] = IF hit THEN @ ELSE @ + 1]
          /\ last' = Called("get", k, None, got.ret, shards')
          /\ Remember(k, got.ret # None, None, shards')
    /\ UNCHANGED <<state, args, todo, now, pc, call, lock>>

ContainsCall(k) ==
    /\ state = "ok"
    /\ last' = Called("contains", k, None,
                      __contains__(shards[Route(k)], k, now), shards)
    /\ UNCHANGED <<state, args, todo, shards, hits, misses, now, written, put_time,
                   used, pc, call, lock>>

\* len(cache): the sum of the shards' lengths.
FacadeLen(shs, t) == SumOver([i \in DOMAIN shs |-> __len__(shs[i], t)], DOMAIN shs)

LenCall ==
    /\ state = "ok"
    /\ last' = Called("len", None, None, FacadeLen(shards, now), shards)
    /\ UNCHANGED <<state, args, todo, shards, hits, misses, now, written, put_time,
                   used, pc, call, lock>>

ClearCall ==
    /\ state = "ok"
    /\ shards' = [i \in ShardIds |-> clear(shards[i])]
    /\ hits' = [i \in ShardIds |-> 0]
    /\ misses' = [i \in ShardIds |-> 0]
    /\ last' = Called("clear", None, None, None, shards')
    /\ Remember(None, FALSE, None, shards')
    /\ UNCHANGED <<state, args, todo, now, pc, call, lock>>

\* The monotonic clock advances.
Tick ==
    /\ now < MaxTime
    /\ now' = now + 1
    /\ last' = Called("tick", None, None, None, shards)
    /\ UNCHANGED <<state, args, todo, shards, hits, misses, written, put_time, used,
                   pc, call, lock>>

Next ==
    \/ Construct
    \/ \E k \in Keys, v \in Values : PutCall(k, v)
    \/ \E k \in Keys : GetCall(k)
    \/ \E k \in Keys : ContainsCall(k)
    \/ LenCall
    \/ ClearCall
    \/ Tick

Spec == Init /\ [][Next]_vars

\* ------------------------------------------------- the capacity distribution
\* Construction alone, over a wider range of capacities and shard counts.
InitShares ==
    Start((-1)..MaxTotalCapacity, TtlArgs, (-1)..MaxNumShards, None)

NextShares == Construct

SpecShares == InitShares /\ [][NextShares]_vars

\* ------------------------------------------------------ concurrent callers
\* A thread's call: it waits for the lock of the shard it is routed to, runs
\* the method's body holding it, and releases it. len and clear of the facade
\* visit the shards in turn, one lock at a time.
ThreadValues == {1}
Pending == {t \in Threads : pc[t] # "idle" /\ call[t].op = "get"}

Begin(t, op, k, v) ==
    /\ state = "ok"
    /\ pc[t] = "idle"
    /\ todo[t] # 0
    /\ op = "get" => Gets + Cardinality(Pending) < MaxGets
    /\ call' = [call EXCEPT ![t] =
                   [op |-> op, key |-> k, value |-> v,
                    i |-> IF k = None THEN 0 ELSE Route(k), acc |-> 0]]
    /\ pc' = [pc EXCEPT ![t] = "wait"]
    /\ todo' = [todo EXCEPT ![t] = IF @ = None THEN None ELSE @ - 1]
    /\ UNCHANGED <<state, args, shards, hits, misses, now, last, written,
                   put_time, used, lock>>

\* The bug of a lock that is taken without waiting for its holder.
Mutant_Acquire_barging(t) ==
    /\ pc[t] = "wait"
    /\ lock' = [lock EXCEPT ![call[t].i] = t]
    /\ pc' = [pc EXCEPT ![t] = "held"]
    /\ UNCHANGED <<state, args, todo, shards, hits, misses, now, last, written,
                   put_time, used, call>>

\* with self._lock: entered
Acquire(t) ==
    /\ pc[t] = "wait"
    /\ lock[call[t].i] = None
    /\ lock' = [lock EXCEPT ![call[t].i] = t]
    /\ pc' = [pc EXCEPT ![t] = "held"]
    /\ UNCHANGED <<state, args, todo, shards, hits, misses, now, last, written,
                   put_time, used, call>>

\* What is kept of a thread's call when it returns.
Returned(t, ret, shs) ==
    [op |-> call[t].op, key |-> call[t].key, value |-> call[t].value,
     ret |-> ret, before |-> None, dropped |-> Stored(shards) \ Stored(shs),
     dropped_at |-> {}]

\* The bug of a body that returns without releasing the lock.
Mutant_Return_keeps_lock(t, ret, shs) ==
    /\ lock' = lock
    /\ pc' = [pc EXCEPT ![t] = "idle"]
    /\ call' = [call EXCEPT ![t] = NoCall]
    /\ last' = Returned(t, ret, shs)

\* with self._lock: left, and the call returns
Return(t, ret, shs) ==
    /\ lock' = [lock EXCEPT ![call[t].i] = None]
    /\ pc' = [pc EXCEPT ![t] = "idle"]
    /\ call' = [call EXCEPT ![t] = NoCall]
    /\ last' = Returned(t, ret, shs)

\* with self._lock: left, and the facade goes on to the next shard, if any
Onward(t, acc, shs) ==
    /\ lock' = [lock EXCEPT ![call[t].i] = None]
    /\ IF call[t].i + 1 \in ShardIds
       THEN /\ pc' = [pc EXCEPT ![t] = "wait"]
            /\ call' = [call EXCEPT ![t].i = @ + 1, ![t].acc = acc]
            /\ last' = last
       ELSE /\ pc' = [pc EXCEPT ![t] = "idle"]
            /\ call' = [call EXCEPT ![t] = NoCall]
            /\ last' = Returned(t, acc, shs)

RunGet(t) ==
    /\ pc[t] = "held"
    /\ call[t].op = "get"
    /\ LET i == call[t].i
           got == get(shards[i], call[t].key, now)
           hit == count_hit(shards[i], call[t].key, now)
       IN /\ shards' = [shards EXCEPT ![i] = got.sh]
          /\ hits' = [hits EXCEPT ![i] = IF hit THEN @ + 1 ELSE @]
          /\ misses' = [misses EXCEPT ![i] = IF hit THEN @ ELSE @ + 1]
          /\ Return(t, got.ret, shards')
    /\ UNCHANGED <<state, args, todo, now, written, put_time, used>>

\* put up to the insertion: an update returns, an insertion goes on to evict.
RunPut(t) ==
    /\ pc[t] = "held"
    /\ call[t].op = "put"
    /\ LET i == call[t].i
           node == shards[i]._cache[call[t].key]
       IN IF node # None
          THEN /\ shards' = [shards EXCEPT ![i] =
                                 put_update(@, node, call[t].value, now)]
               /\ Return(t, None, shards')
          ELSE /\ shards' = [shards EXCEPT ![i] =
                                 put_insert(@, call[t].key, call[t].value, now)]
               /\ pc' = [pc EXCEPT ![t] = "evict"]
               /\ UNCHANGED <<call, lock, last>>
    /\ UNCHANGED <<state, args, todo, hits, misses, now, written, put_time, used>>

RunEvict(t) ==
    /\ pc[t] = "evict"
    /\ shards' = [shards EXCEPT ![call[t].i] = put_evict(@)]
    /\ Return(t, None, shards')
    /\ UNCHANGED <<state, args, todo, hits, misses, now, written, put_time, used>>

RunContains(t) ==
    /\ pc[t] = "held"
    /\ call[t].op = "contains"
    /\ Return(t, __contains__(shards[call[t].i], call[t].key, now), shards)
    /\ UNCHANGED <<state, args, todo, shards, hits, misses, now, written, put_time,
                   used>>

RunLen(t) ==
    /\ pc[t] = "held"
    /\ call[t].op = "len"
    /\ Onward(t, call[t].acc + __len__(shards[call[t].i], now), shards)
    /\ UNCHANGED <<state, args, todo, shards, hits, misses, now, written, put_time,
                   used>>

RunClear(t) ==
    /\ pc[t] = "held"
    /\ call[t].op = "clear"
    /\ shards' = [shards EXCEPT ![call[t].i] = clear(@)]
    /\ hits' = [hits EXCEPT ![call[t].i] = 0]
    /\ misses' = [misses EXCEPT ![call[t].i] = 0]
    /\ Onward(t, 0, shards')
    /\ UNCHANGED <<state, args, todo, now, written, put_time, used>>

InitThreads ==
    /\ Init
    /\ args.capacity > 0
    /\ args.num_shards > 0
    /\ args.ttl_seconds = None

NextThreads ==
    \/ Construct
    \/ \E t \in Threads, k \in Keys, v \in ThreadValues : Begin(t, "put", k, v)
    \/ \E t \in Threads, k \in Keys : Begin(t, "get", k, None)
    \/ \E t \in Threads, k \in Keys : Begin(t, "contains", k, None)
    \/ \E t \in Threads : Begin(t, "len", None, None)
    \/ \E t \in Threads : Begin(t, "clear", None, None)
    \/ \E t \in Threads : Acquire(t)
    \/ \E t \in Threads : RunGet(t)
    \/ \E t \in Threads : RunPut(t)
    \/ \E t \in Threads : RunEvict(t)
    \/ \E t \in Threads : RunContains(t)
    \/ \E t \in Threads : RunLen(t)
    \/ \E t \in Threads : RunClear(t)

SpecThreads == InitThreads /\ [][NextThreads]_vars

\* Threads whose loops end: each makes at most MaxCalls calls.
InitLoops == Start(1..MaxCapacity, {None}, 1..MaxShards, MaxCalls)

\* The calls the threads have begun so far.
Issued == SumOver([t \in Threads |-> MaxCalls - todo[t]], Threads)

\* The snapshot of the counters, one entry per shard.
get_shard_metrics ==
    [i \in ShardIds |-> [hits |-> hits[i], misses |-> misses[i]]]

\* Threads that only get, on a cache nothing was ever put into.
NextMisses ==
    \/ Construct
    \/ \E t \in Threads, k \in Keys : Begin(t, "get", k, None)
    \/ \E t \in Threads : Acquire(t)
    \/ \E t \in Threads : RunGet(t)

SpecMisses == InitLoops /\ [][NextMisses]_vars

\* The keys of the puts in progress.
InFlight == {call[t].key : t \in {u \in Threads : call[u].op = "put"}}

\* A thread puts a key no thread has put (it is neither stored nor being put,
\* nothing having left the cache), one of at most capacity keys in all.
BeginDisjointPut(t, k) ==
    /\ state = "ok"
    /\ Issued < args.capacity
    /\ k \notin Stored(shards) \cup InFlight
    /\ Begin(t, "put", k, 1)

\* Threads that only put, each its own keys, into an empty cache.
NextPuts ==
    \/ Construct
    \/ \E t \in Threads, k \in Keys : BeginDisjointPut(t, k)
    \/ \E t \in Threads : Acquire(t)
    \/ \E t \in Threads : RunPut(t)
    \/ \E t \in Threads : RunEvict(t)

SpecPuts == InitLoops /\ [][NextPuts]_vars

\* A step of thread t inside a call it has begun.
Proceed(t) ==
    \/ Acquire(t)
    \/ RunGet(t)
    \/ RunPut(t)
    \/ RunEvict(t)
    \/ RunContains(t)
    \/ RunLen(t)
    \/ RunClear(t)

\* Threads with finite loops of any calls, each scheduled again and again: a
\* thread that can go on in its call, from some point on, does (every such
\* step moves the thread's pc).
SpecLoops ==
    /\ InitLoops
    /\ [][NextThreads]_vars
    /\ \A t \in Threads : WF_pc(Proceed(t))

\* ------------------------------------------------------------ the claims
Single == state = "ok" /\ args.num_shards = 1
Ttl == args.ttl_seconds
ShardOf(k) == shards[Route(k)]
\* By the history alone: more than the TTL has passed since k's latest put.
Stale(k) == Ttl # None /\ put_time[k] # None /\ now - put_time[k] > Ttl
\* By the history alone: k is stored and its latest put is at most the TTL old.
Live(k) == put_time[k] # None /\ ~Stale(k)
\* The key at the most-recently-used end of a recency list.
HeadKey(sh) == sh.key[sh.next[_head]]
Quiescent == state = "ok" /\ \A t \in Threads : pc[t] = "idle"
TotalHits == SumOver(hits, DOMAIN hits)
TotalMisses == SumOver(misses, DOMAIN misses)

\* C1: on a single-shard cache of capacity N, between any two calls of any
\* sequence of put/get/contains/len/clear, len() <= N and the index holds at
\* most N entries; a len() call never returns more than N.
C1_CapacityInvariant ==
    Single =>
        /\ FacadeLen(shards, now) <= args.capacity
        /\ Cardinality({k \in Keys : shards[0]._cache[k] # None}) <= args.capacity
        /\ (last.op = "len" => last.ret <= args.capacity)

\* C1's case: a put of a new key into a full cache has just evicted.
C1_Witness ==
    /\ Single
    /\ last.op = "put"
    /\ last.dropped # {}
    /\ Cardinality(Stored(shards)) = args.capacity

\* C2: without TTL, on a single shard, a put of a new key removes an entry iff
\* the cache was full; the entry removed is the stored key whose latest
\* successful get or put is the oldest, and every other stored key, and the
\* new one, is then retrievable with its value.
C2_LruOrder ==
    [][(Single /\ Ttl = None /\ last'.op = "put" /\ last'.before = None) =>
          LET full == Cardinality(Stored(shards)) = args.capacity
          IN /\ full => last'.dropped = {used[Len(used)]}
             /\ ~full => last'.dropped = {}
             /\ \A x \in Stored(shards) \ last'.dropped :
                    get(shards'[0], x, now').ret = written[x]
             /\ get(shards'[0], last'.key, now').ret = last'.value]_vars

\* C2's case: capacity 2, keys 1 and 2 stored, 1 used after 2, then put(3, _):
\* 2 is gone and 3 and 1 are stored.
C2_Witness ==
    /\ Single
    /\ Ttl = None
    /\ args.capacity = 2
    /\ last.op = "put"
    /\ last.key = 3
    /\ last.dropped = {2}
    /\ used = <<3, 1>>
    /\ TotalHits = 1

\* C3: a put on a stored key updates its node in place, makes it the most
\* recently used, evicts nothing and leaves the stored keys as they were; with
\* another entry in its shard, the key is not the next eviction victim.
C3_OverwriteRefreshesRecency ==
    [][(state = "ok" /\ last'.op = "put" /\ last'.before # None) =>
          LET k == last'.key
              old == shards[Route(k)]
              new == shards'[Route(k)]
          IN /\ new._cache[k] = old._cache[k]
             /\ new.value[new._cache[k]] = last'.value
             /\ new.next[_head] = new._cache[k]
             /\ used'[1] = k
             /\ last'.dropped = {}
             /\ Stored(shards') = Stored(shards)
             /\ DictLen(new) = DictLen(old)
             /\ DictLen(new) > 1 => new.prev[_tail] # new._cache[k]]_vars

\* C3's case: capacity 2, keys 1 and 2 stored, then put(1, 10) overwrites.
C3_Witness ==
    /\ Single
    /\ args.capacity = 2
    /\ last.op = "put"
    /\ last.key = 1
    /\ last.value = 10
    /\ last.before # None
    /\ used = <<1, 2>>

\* C4: get(k) returns the value of k's latest put when k is stored and not
\* expired, and then k is at the head of its recency list; it returns absent
\* otherwise; a get(k) directly after put(k, v) returns v.
C4_GetReturnsLatestPut ==
    [][(state = "ok" /\ last'.op = "get") =>
          LET k == last'.key
          IN /\ IF written[k] # None /\ ~Stale(k)
                THEN /\ last'.ret = written[k]
                     /\ HeadKey(shards'[Route(k)]) = k
                ELSE last'.ret = None
             /\ (last.op = "put" /\ last.key = k) => last'.ret = last.value]_vars

\* C4's case: a get has returned the value 10 of one of two stored keys, the
\* other holding 1.
C4_Witness ==
    /\ state = "ok"
    /\ last.op = "get"
    /\ last.ret = 10
    /\ Len(used) = 2
    /\ \E k \in Keys : k # last.key /\ written[k] = 1

\* C5: once more than the TTL has passed since k's latest put, get(k) returns
\* absent and contains(k) is false; len() is the number of stored keys whose
\* latest put is at most the TTL old.
C5_TtlExpiry ==
    [][state = "ok" =>
          /\ (last'.op = "get" /\ Stale(last'.key)) => last'.ret = None
          /\ (last'.op = "contains" /\ Stale(last'.key)) => last'.ret = FALSE
          /\ last'.op = "len" =>
                 last'.ret = Cardinality({k \in Keys : Live(k)})]_vars

\* C5's case: a get has found an entry older than the TTL, while another key,
\* put later, is still live.
C5_Witness ==
    /\ state = "ok"
    /\ Ttl # None
    /\ last.op = "get"
    /\ last.ret = None
    /\ last.dropped = {last.key}
    /\ \E k \in Keys : Live(k)

\* C6: a stored entry's timestamp is the time of its latest put, and with a
\* TTL T the entry is live (contains is true, get returns the value of that
\* put, len counts it) exactly while now minus that time is at most T.
C6_TtlRefreshOnOverwrite ==
    state = "ok" =>
        /\ \A k \in Keys : put_time[k] # None =>
              LET sh == ShardOf(k)
              IN /\ sh._cache[k] # None
                 /\ sh.created_at[sh._cache[k]] = put_time[k]
                 /\ __contains__(sh, k, now) <=> (Ttl = None \/ now - put_time[k] <= Ttl)
                 /\ (Ttl = None \/ now - put_time[k] <= Ttl) =>
                        get(sh, k, now).ret = written[k]
        /\ FacadeLen(shards, now) = Cardinality({k \in Keys : Live(k)})

\* C6's case: with TTL 1, a key put at time 0, and so still live at time 1, has
\* just been put again, with value 10, at time 1.
C6_Witness ==
    /\ state = "ok"
    /\ Ttl = 1
    /\ now = 1
    /\ last.op = "put"
    /\ last.before = 0
    /\ last.value = 10
    /\ put_time[last.key] = 1

C11_ContainsFrame ==
    [][(state = "ok" /\ last'.op = "contains") =>
          LET k == last'.key
              i == Route(k)
          IN /\ last'.ret = (shards[i]._cache[k] # None /\ ~Stale(k))
             /\ shards' = shards
             /\ shards'[i].prev[_tail] = shards[i].prev[_tail]
             /\ hits' = hits
             /\ misses' = misses
             /\ used' = used
             /\ Stale(k) => shards'[i]._cache[k] # None]_vars

\* C11's case: contains has returned false for an expired entry, the least
\* recently used of two, and the entry is still in the index.
C11_Witness ==
    /\ state = "ok"
    /\ last.op = "contains"
    /\ last.ret = FALSE
    /\ Stale(last.key)
    /\ ShardOf(last.key)._cache[last.key] # None
    /\ DictLen(ShardOf(last.key)) = 2
    /\ ShardOf(last.key).prev[_tail] = ShardOf(last.key)._cache[last.key]

\* The capacities of the shards of the cache, summed.
TotalCapacity == SumOver([i \in ShardIds |-> shards[i]._capacity], ShardIds)

RECURSIVE Walk(_, _, _)
Walk(sh, n, fuel) ==
    IF n = _tail \/ n = None \/ fuel = 0 THEN <<>>
    ELSE <<n>> \o Walk(sh, sh.next[n], fuel - 1)

\* The recency list of a shard, most recently used first.
Linked(sh) == Walk(sh, sh.next[_head], Cardinality(Nodes) + 1)
Indexed(sh) == {sh._cache[k] : k \in {x \in Keys : sh._cache[x] # None}}

\* Index and list hold the same nodes, each once in the list, under its own
\* key in the index, and the links of the list agree in both directions.
Bijection(sh) ==
    LET w == Linked(sh)
        end == IF w = <<>> THEN _head ELSE w[Len(w)]
    IN /\ sh.next[end] = _tail
       /\ sh.prev[_tail] = end
       /\ {w[j] : j \in 1..Len(w)} = Indexed(sh)
       /\ Cardinality({w[j] : j \in 1..Len(w)}) = Len(w)
       /\ Len(w) = DictLen(sh)
       /\ \A k \in Keys : sh._cache[k] # None => sh.key[sh._cache[k]] = k
       /\ \A j \in 1..Len(w) :
              /\ sh.prev[sh.next[w[j]]] = w[j]
              /\ sh.next[sh.prev[w[j]]] = w[j]
       /\ sh.prev[sh.next[_head]] = _head

\* C14: between public operations, in every shard, the nodes linked between
\* the sentinels are the nodes the index holds, each is in the list once, the
\* walk from head reaches tail, and n.next.prev = n = n.prev.next for each
\* linked node n.
C14_IndexListBijection ==
    state = "ok" => \A i \in ShardIds : Bijection(shards[i])

\* C14's case: a get has relinked the second of two entries to the front.
C14_Witness ==
    /\ Single
    /\ last.op = "get"
    /\ last.ret # None
    /\ written[last.key] = 1
    /\ used = <<last.key, 3>>
    /\ Len(Linked(shards[0])) = 2
    /\ Linked(shards[0])[1] = shards[0]._cache[last.key]
    /\ TotalHits = 2

\* The keys of a shard's recency list, most recently used first.
KeysOf(sh) == [j \in 1..Len(Linked(sh)) |-> sh.key[Linked(sh)[j]]]

\* C15: a get(k) that finds k's entry older than the TTL returns absent and
\* removes k, and only k, from index and list: the other shards are as they
\* were, the other entries of k's shard keep node, value, timestamp and their
\* order, and a put of any new key that follows evicts nothing.
C15_ExpiryDrivenRemoval ==
    [][(state = "ok" /\ last'.op = "get" /\ Stale(last'.key)) =>
          LET k == last'.key
              i == Route(k)
              old == shards[i]
              new == shards'[i]
          IN /\ last'.ret = None
             /\ last'.dropped = {k}
             /\ new._cache[k] = None
             /\ old._cache[k] \notin {Linked(new)[j] : j \in 1..Len(Linked(new))}
             /\ \A x \in ShardIds \ {i} : shards'[x] = shards[x]
             /\ KeysOf(new) = Without(KeysOf(old), {k})
             /\ \A x \in Keys \ {k} :
                    /\ new._cache[x] = old._cache[x]
                    /\ old._cache[x] # None =>
                           /\ new.value[new._cache[x]] = old.value[old._cache[x]]
                           /\ new.created_at[new._cache[x]] =
                                  old.created_at[old._cache[x]]
             /\ \A x \in Keys, v \in Values :
                    (Route(x) = i /\ new._cache[x] = None) =>
                        LET after == put(new, x, v, now')
                        IN {y \in Keys : after._cache[y] # None} =
                               {y \in Keys : new._cache[y] # None} \cup {x}]_vars

\* C15's case: a get has removed the expired entry of a full shard of capacity
\* 2, and the other entry, put later, is left.
C15_Witness ==
    /\ Single
    /\ args.capacity = 2
    /\ last.op = "get"
    /\ last.ret = None
    /\ last.dropped = {last.key}
    /\ DictLen(shards[0]) = 1
    /\ \E x \in Keys : Live(x) /\ put_time[x] = now

\* C16: a put of a key that is not in the index removes an entry iff the index,
\* expired entries included, holds more than capacity entries once the key is
\* inserted; it then removes exactly one, the entry at the tail of the list,
\* whatever its age, and never the new key; otherwise it removes none.
C16_OneEvictionPerOverflow ==
    [][(state = "ok" /\ last'.op = "put" /\ last'.before = None) =>
          LET k == last'.key
              i == Route(k)
              old == shards[i]
              new == shards'[i]
              overflow == DictLen(old) + 1 > old._capacity
          IN /\ old._cache[k] = None
             /\ new._cache[k] # None
             /\ overflow <=> last'.dropped # {}
             /\ overflow =>
                    /\ last'.dropped = {old.key[old.prev[_tail]]}
                    /\ DictLen(new) = DictLen(old)
                    /\ KeysOf(new) =
                           <<k>> \o SubSeq(KeysOf(old), 1, Len(KeysOf(old)) - 1)
             /\ ~overflow =>
                    /\ DictLen(new) = DictLen(old) + 1
                    /\ KeysOf(new) = <<k>> \o KeysOf(old)
             /\ \A x \in ShardIds \ {i} : shards'[x] = shards[x]]_vars

\* C16's case: with TTL 1, at time 2, a put of a new key into a full shard of
\* capacity 2 has evicted the tail, an entry put at time 1 and so live, while
\* the expired entry ahead of it in the list stays.
C16_Witness ==
    /\ Single
    /\ args.capacity = 2
    /\ Ttl = 1
    /\ now = 2
    /\ last.op = "put"
    /\ Cardinality(last.dropped) = 1
    /\ last.dropped_at = {1}
    /\ \E a \in Stored(shards) : Stale(a)

\* C17: len() returns the number of indexed keys whose latest put is at most
\* the TTL old (the size of the index without TTL) and changes nothing: shards,
\* counters and access history are as before, expired entries stay indexed,
\* and a full shard is still full, so that a put of a new key into it evicts.
C17_LenFrame ==
    [][(state = "ok" /\ last'.op = "len") =>
          /\ last'.ret = Cardinality({k \in Stored(shards) : ~Stale(k)})
          /\ Ttl = None => last'.ret = Cardinality(Stored(shards))
          /\ shards' = shards
          /\ hits' = hits
          /\ misses' = misses
          /\ used' = used
          /\ \A k \in Keys : Stale(k) => k \in Stored(shards')
          /\ \A i \in ShardIds, x \in Keys, v \in Values :
                 (/\ Route(x) = i
                  /\ shards[i]._cache[x] = None
                  /\ DictLen(shards[i]) = shards[i]._capacity) =>
                     LET after == put(shards'[i], x, v, now')
                     IN /\ DictLen(after) = shards[i]._capacity
                        /\ after._cache[
                               shards[i].key[shards[i].prev[_tail]]] = None]_vars

\* C17's case: len() has returned 1 on a full shard of capacity 2 that holds
\* one live and one expired entry.
C17_Witness ==
    /\ Single
    /\ args.capacity = 2
    /\ last.op = "len"
    /\ last.ret = 1
    /\ DictLen(shards[0]) = 2
    /\ \E a \in Stored(shards) : Stale(a)
    /\ \E b \in Stored(shards) : Live(b)

\* The threads inside a method body on shard i.
CriticalOn(i) ==
    {t \in Threads : pc[t] \in {"held", "evict"} /\ call[t].i = i}

\* The lock of a shard is held by the one thread inside a body on it, if any.
Exclusion ==
    \A i \in ShardIds :
        \/ lock[i] = None /\ CriticalOn(i) = {}
        \/ lock[i] \in Threads /\ CriticalOn(i) = {lock[i]}

\* Every shard is well-formed, and within its capacity unless its lock holder
\* is between the insertion and the eviction of its own put.
Consistent ==
    \A i \in ShardIds :
        /\ Bijection(shards[i])
        /\ \/ DictLen(shards[i]) <= shards[i]._capacity
           \/ /\ lock[i] \in Threads
              /\ pc[lock[i]] = "evict"
              /\ DictLen(shards[i]) = shards[i]._capacity + 1
              /\ HeadKey(shards[i]) = call[lock[i]].key

\* C18: with threads interleaved at will, a shard and its counters change only
\* in a step of the thread holding the shard's lock, one thread at most is
\* inside a body on a shard, each body has the effect of the method run alone
\* (a put's two steps those of put on the state it found), and every shard is
\* well-formed and, whenever its lock is free, within its capacity.
C18_Atomicity ==
    [][state = "ok" =>
          /\ Exclusion'
          /\ Consistent'
          /\ \A i \in ShardIds :
                 (\/ shards'[i] # shards[i]
                  \/ hits'[i] # hits[i]
                  \/ misses'[i] # misses[i]) =>
                     /\ lock[i] \in Threads
                     /\ pc[lock[i]] \in {"held", "evict"}
                     /\ pc'[lock[i]] # pc[lock[i]]
                     /\ \A u \in Threads \ {lock[i]} : pc'[u] = pc[u]
                     /\ LET c == call[lock[i]]
                        IN /\ c.op = "get" =>
                                  shards'[i] = get(shards[i], c.key, now).sh
                           /\ (c.op = "put" /\ pc'[lock[i]] = "idle") =>
                                  \/ shards'[i] =
                                         put(shards[i], c.key, c.value, now)
                                  \/ /\ pc[lock[i]] = "evict"
                                     /\ shards'[i] = put_evict(shards[i])
                           /\ (c.op = "put" /\ pc'[lock[i]] = "evict") =>
                                  put(shards[i], c.key, c.value, now) =
                                      put_evict(shards'[i])
                           /\ c.op = "clear" => shards'[i] = clear(shards[i])
                           /\ c.op \in {"contains", "len"} => FALSE]_vars

\* C18's case: a thread is between the insertion and the eviction of its put
\* on a full shard, holding the lock, and the other thread waits for that lock.
C18_Witness ==
    /\ state = "ok"
    /\ pc[1] = "evict"
    /\ pc[2] = "wait"
    /\ call[2].i = call[1].i
    /\ lock[call[1].i] = 1
    /\ DictLen(shards[call[1].i]) = shards[call[1].i]._capacity + 1

C20_EveryCallReturns ==
    /\ [](\A t \in Threads :
             /\ Cardinality({i \in ShardIds : lock[i] = t}) <= 1
             /\ pc[t] = "idle" => \A i \in ShardIds : lock[i] # t)
    /\ <>[](/\ \A t \in Threads : pc[t] = "idle"
            /\ \A i \in ShardIds : lock[i] = None)

\* C20's case: a thread waits for the lock of the second shard while the
\* other, in a clear that has gone on to that shard, holds it.
C20_Witness ==
    /\ state = "ok"
    /\ args.num_shards = 2
    /\ pc[1] = "wait"
    /\ call[1].i = 1
    /\ pc[2] = "held"
    /\ call[2].op = "clear"
    /\ call[2].i = 1
    /\ lock[1] = 2

\* The timestamp of k's entry in the shards shs, None when k is not indexed.
StampOf(shs, k) ==
    LET sh == shs[Route(k)]
    IN IF sh._cache[k] = None THEN None ELSE sh.created_at[sh._cache[k]]

\* C21: get, contains and len leave the timestamp of every entry that stays
\* indexed as it was; a timestamp is set only by a put of its key, to the time
\* of the put; so an entry is expired exactly when more than the TTL has
\* passed since its latest put, whatever gets came in between, and an expired
\* entry that stays indexed stays expired until its key is put.
C21_ReadsDoNotExtendLifetime ==
    [][state = "ok" =>
          \A k \in Keys :
              LET put_k == last'.op = "put" /\ last'.key = k
                  old == shards[Route(k)]
                  new == shards'[Route(k)]
              IN /\ (last'.op \in {"get", "contains", "len"}
                     /\ new._cache[k] # None) =>
                        StampOf(shards', k) = StampOf(shards, k)
                 /\ (new._cache[k] # None /\ ~put_k) =>
                        StampOf(shards', k) = StampOf(shards, k)
                 /\ put_k => StampOf(shards', k) = now
                 /\ new._cache[k] # None =>
                        (_is_expired(new, new._cache[k], now') <=>
                            (Ttl # None /\ now' - put_time'[k] > Ttl))
                 /\ (/\ old._cache[k] # None
                     /\ _is_expired(old, old._cache[k], now)
                     /\ new._cache[k] # None
                     /\ ~put_k) =>
                        /\ _is_expired(new, new._cache[k], now')
                        /\ ~__contains__(new, k, now')
                        /\ get(new, k, now').ret = None]_vars

\* C21's case: with TTL 1, the second successful get, at time 1, has returned
\* an entry put at time 0, and the entry's timestamp is still 0.
C21_Witness ==
    /\ state = "ok"
    /\ Ttl = 1
    /\ now = 1
    /\ last.op = "get"
    /\ last.ret # None
    /\ TotalHits = 2
    /\ put_time[last.key] = 0
    /\ StampOf(shards, last.key) = 0

====
